---- MODULE Spec2Model ----
(***************************************************************************)
(* flask-calc (src/app.py): a Flask application with a "safe" arithmetic   *)
(* evaluator (safe_eval / _eval_node over Python's ast) and two request    *)
(* handlers (/calculate, /api/calc) that store every successful            *)
(* evaluation as a Calculation row.                                        *)
(*                                                                         *)
(* Texts are sequences of one-character strings.  Python numbers are       *)
(* modelled exactly where the model can represent them (small integers,    *)
(* booleans, floats that are small dyadic rationals, decimal literals too  *)
(* large for a machine integer as their digit string); an evaluation that  *)
(* leaves that domain ends in the outcome Beyond, which no formula below   *)
(* counts as a value or as an error of the program.                        *)
(***************************************************************************)
EXTENDS Integers, Sequences, FiniteSets, TLC

(***************************************************************************)
(* Bounds of the model.                                                    *)
(***************************************************************************)
\* largest numerator / denominator the exact arithmetic keeps
MaxMag == 30000
\* longest decimal integer literal converted to a machine integer
MaxIntDigits == 5

(***************************************************************************)
(* Characters.                                                             *)
(***************************************************************************)
DigitChars == <<"0", "1", "2", "3", "4", "5", "6", "7", "8", "9">>
Digits == {DigitChars[i] : i \in 1..10}
DigitVal(c) == (CHOOSE i \in 1..10 : DigitChars[i] = c) - 1
Letters == {"a", "b", "c", "d", "e", "f", "g", "h", "i", "j", "k", "l", "m",
            "n", "o", "p", "q", "r", "s", "t", "u", "v", "w", "x", "y", "z",
            "F", "N", "T", "_"}
\* characters str.strip() removes (space, tab, newline)
Whitespace == {" ", "\t", "\n"}

Abs(x) == IF x < 0 THEN -x ELSE x
Sign(x) == IF x < 0 THEN -1 ELSE IF x > 0 THEN 1 ELSE 0

RECURSIVE Gcd(_, _)
Gcd(a, b) == IF b = 0 THEN a ELSE Gcd(b, a % b)

RECURSIVE IsPow2(_)
IsPow2(d) == IF d = 1 THEN TRUE ELSE IF d % 2 # 0 THEN FALSE ELSE IsPow2(d \div 2)

(***************************************************************************)
(* Outcomes of a call: a value, a raised exception, or Beyond.             *)
(***************************************************************************)
Ok(v) == [ok |-> TRUE, val |-> v, exc |-> "", msg |-> ""]
Raise(e, m) == [ok |-> FALSE, val |-> [k |-> "none"], exc |-> e, msg |-> m]
Beyond == Raise("beyond", "outside the modelled number domain")
IsValue(o) == o.ok
IsBeyond(o) == o.exc = "beyond"

(***************************************************************************)
(* Python values.                                                          *)
(***************************************************************************)
IntV(n) == [k |-> "int", n |-> n, d |-> 1]
BoolV(b) == [k |-> "bool", n |-> IF b THEN 1 ELSE 0, d |-> 1]
FloatV(n, d) == [k |-> "float", n |-> n, d |-> d]
\* a float that only approximates the rational n/d; re is its repr
InexactV(n, d, re) == [k |-> "float~", n |-> n, d |-> d, repr |-> re]
BigIntV(neg, ds) == [k |-> "bigint", neg |-> neg, digits |-> ds]
ComplexV(zero, re) == [k |-> "complex", zero |-> zero, repr |-> re]
StrV(s) == [k |-> "str", s |-> s]
NoneV == [k |-> "NoneType"]

\* int, bool and exactly modelled float: the operands the arithmetic covers
IsIntLike(v) == v.k \in {"int", "bool"}
IsExact(v) == v.k \in {"int", "bool", "float"}
IsZero(v) ==
    CASE v.k \in {"int", "bool", "float", "float~"} -> v.n = 0
      [] v.k = "complex" -> v.zero
      [] OTHER -> FALSE

InRange(n, d) == Abs(n) <= MaxMag /\ d <= MaxMag

\* the float n/d (d > 0): exact when n/d is a small dyadic rational
MkFloat(n, d) ==
    LET g == Gcd(Abs(n), d)
        nn == IF g = 0 THEN 0 ELSE n \div g
        dd == IF g = 0 THEN 1 ELSE d \div g
    IN  IF ~InRange(nn, dd) THEN Beyond
        ELSE IF IsPow2(dd) THEN Ok(FloatV(nn, dd))
        ELSE Ok(InexactV(nn, dd, <<>>))
MkInt(n) == IF Abs(n) <= MaxMag THEN Ok(IntV(n)) ELSE Beyond
(***************************************************************************)
(* The functions of Python's operator module that _ops and _unary_ops      *)
(* name, on the modelled values.  An operand outside the exactly modelled  *)
(* domain gives Beyond, except where the outcome does not depend on its    *)
(* value.                                                                  *)
(***************************************************************************)
\* a float result that is zero although an operand is negative is -0.0,
\* which the rational model does not hold
NegZero(n, a, b) == n = 0 /\ (a.n < 0 \/ b.n < 0)

operator_add(a, b) ==
    IF ~(IsExact(a) /\ IsExact(b)) THEN Beyond
    ELSE IF IsIntLike(a) /\ IsIntLike(b) THEN MkInt(a.n + b.n)
    ELSE MkFloat(a.n * b.d + b.n * a.d, a.d * b.d)

operator_sub(a, b) ==
    IF ~(IsExact(a) /\ IsExact(b)) THEN Beyond
    ELSE IF IsIntLike(a) /\ IsIntLike(b) THEN MkInt(a.n - b.n)
    ELSE MkFloat(a.n * b.d - b.n * a.d, a.d * b.d)

operator_mul(a, b) ==
    IF ~(IsExact(a) /\ IsExact(b)) THEN Beyond
    ELSE IF IsIntLike(a) /\ IsIntLike(b) THEN MkInt(a.n * b.n)
    ELSE IF NegZero(a.n * b.n, a, b) THEN Beyond
    ELSE MkFloat(a.n * b.n, a.d * b.d)

operator_truediv(a, b) ==
    IF IsZero(b) /\ (IsExact(a) \/ a.k \in {"float~", "complex", "bigint"})
        THEN Raise("ZeroDivisionError", "")
    ELSE IF ~(IsExact(a) /\ IsExact(b)) THEN Beyond
    ELSE IF NegZero(a.n, a, b) THEN Beyond
    ELSE MkFloat(Sign(b.n) * a.n * b.d, a.d * Abs(b.n))

\* C's integer division, which truncates toward zero
TruncDiv(x, y) == Sign(x) * Sign(y) * (Abs(x) \div Abs(y))

\* CPython's i_divmod (Objects/longobject.c): truncate, then step the
\* quotient down and the remainder up by y when the remainder is non-zero
\* and its sign differs from y's
IntDivModBad(x, y) ==
    LET div == TruncDiv(x, y)
    IN  [div |-> div, mod |-> x - div * y]
IntDivMod(x, y) ==
    LET div == TruncDiv(x, y)
        mod == x - div * y
    IN  IF mod # 0 /\ (mod < 0) # (y < 0)
        THEN [div |-> div - 1, mod |-> mod + y]
        ELSE [div |-> div, mod |-> mod]

\* float_divmod (Objects/floatobject.c) on the rationals xn/xd and yn/yd:
\* fmod, the same sign fix, then the floor of the quotient
FloatDivMod(xn, xd, yn, yd) ==
    LET tq == TruncDiv(xn * yd, xd * yn)
        \* fmod(x, y) = x - y * trunc(x / y), over the denominator xd * yd
        fm == xn * yd - tq * yn * xd
        fix == fm # 0 /\ (fm < 0) # (yn < 0)
    IN  [div |-> IF fix THEN tq - 1 ELSE tq,
         modn |-> IF fix THEN fm + yn * xd ELSE fm,
         modd |-> xd * yd]

operator_floordiv(a, b) ==
    IF a.k = "complex" \/ b.k = "complex" THEN Raise("TypeError", "")
    ELSE IF IsZero(b) /\ (IsExact(a) \/ a.k \in {"float~", "bigint"})
        THEN Raise("ZeroDivisionError", "")
    ELSE IF ~(IsExact(a) /\ IsExact(b)) THEN Beyond
    ELSE IF IsIntLike(a) /\ IsIntLike(b) THEN MkInt(IntDivMod(a.n, b.n).div)
    ELSE LET r == FloatDivMod(a.n, a.d, b.n, b.d)
         IN  IF NegZero(r.div, a, b) THEN Beyond ELSE MkFloat(r.div, 1)

operator_mod(a, b) ==
    IF a.k = "complex" \/ b.k = "complex" THEN Raise("TypeError", "")
    ELSE IF IsZero(b) /\ (IsExact(a) \/ a.k \in {"float~", "bigint"})
        THEN Raise("ZeroDivisionError", "")
    ELSE IF ~(IsExact(a) /\ IsExact(b)) THEN Beyond
    ELSE IF IsIntLike(a) /\ IsIntLike(b) THEN MkInt(IntDivMod(a.n, b.n).mod)
    ELSE LET r == FloatDivMod(a.n, a.d, b.n, b.d)
         IN  IF NegZero(r.modn, a, b) THEN Beyond ELSE MkFloat(r.modn, r.modd)

\* x ** e for an integer x and e >= 0 by repeated multiplication; -1 stands
\* for a magnitude above MaxMag
RECURSIVE MagPowFrom(_, _, _)
MagPowFrom(acc, x, e) ==
    IF e = 0 THEN acc
    ELSE IF acc * x > MaxMag THEN -1
    ELSE MagPowFrom(acc * x, x, e - 1)
MagPow(x, e) ==
    IF e = 0 THEN 1 ELSE IF x <= 1 THEN x ELSE MagPowFrom(1, x, e)

\* (n/d) ** e for an integer e, as the pair of numerator and denominator
RatPow(n, d, e) ==
    LET pn == MagPow(Abs(n), Abs(e))
        pd == MagPow(d, Abs(e))
        s == IF n < 0 /\ Abs(e) % 2 = 1 THEN -1 ELSE 1
    IN  IF pn = -1 \/ pd = -1 THEN <<0, 0>>
        ELSE IF e >= 0 THEN <<s * pn, pd>> ELSE <<s * pd, pn>>

\* results of float pow and complex pow that are irrational, with the repr
\* CPython gives the IEEE double it returns
Sqrt2Repr == <<"1", ".", "4", "1", "4", "2", "1", "3", "5", "6", "2", "3",
               "7", "3", "0", "9", "5", "1">>
SqrtM8Repr == <<"(", "1", ".", "7", "3", "1", "9", "1", "2", "1", "1", "2",
                "4", "7", "0", "9", "8", "6", "8", "e", "-", "1", "6", "+",
                "2", ".", "8", "2", "8", "4", "2", "7", "1", "2", "4", "7",
                "4", "6", "1", "9", "0", "3", "j", ")">>
IrrationalPow(xn, xd, yn, yd) ==
    CASE <<xn, xd, yn, yd>> = <<2, 1, 1, 2>> -> Ok(InexactV(7071, 5000, Sqrt2Repr))
      [] <<xn, xd, yn, yd>> = <<-8, 1, 1, 2>> -> Ok(ComplexV(FALSE, SqrtM8Repr))
      [] OTHER -> Beyond

\* a negative base with a non-integer exponent: float_pow hands over to
\* complex pow, which returns a complex number
NegativeBasePow(xn, xd, yn, yd) == IrrationalPow(xn, xd, yn, yd)

operator_pow(a, b) ==
    IF ~(IsExact(a) /\ IsExact(b)) THEN Beyond
    ELSE IF IsIntLike(a) /\ IsIntLike(b) /\ b.n >= 0
        THEN LET p == RatPow(a.n, 1, b.n)
             IN  IF p[2] = 0 THEN Beyond ELSE MkInt(p[1])
    ELSE IF b.d = 1
        \* an integral exponent, the result a float
        THEN IF a.n = 0 /\ b.n < 0 THEN Raise("ZeroDivisionError", "")
             ELSE LET p == RatPow(a.n, a.d, b.n)
                  IN  IF p[2] = 0 THEN Beyond ELSE MkFloat(p[1], p[2])
    ELSE IF a.n < 0 THEN NegativeBasePow(a.n, a.d, b.n, b.d)
    ELSE IF a.n = 0
        THEN IF b.n < 0 THEN Raise("ZeroDivisionError", "")
             ELSE Ok(FloatV(0, 1))
    ELSE IF a.n = a.d THEN Ok(FloatV(1, 1))
    ELSE IrrationalPow(a.n, a.d, b.n, b.d)

operator_pos(a) ==
    CASE IsIntLike(a) -> Ok(IntV(a.n))
      [] a.k \in {"float", "float~", "complex", "bigint"} -> Ok(a)
      [] OTHER -> Raise("TypeError", "")

operator_neg(a) ==
    CASE IsIntLike(a) -> Ok(IntV(-a.n))
      [] a.k = "float" -> IF a.n = 0 THEN Beyond ELSE Ok(FloatV(-a.n, a.d))
      [] a.k = "bigint" -> Ok(BigIntV(~a.neg, a.digits))
      [] a.k \in {"float~", "complex"} -> Beyond
      [] OTHER -> Raise("TypeError", "")

\* the function a dictionary entry names, applied
Call2(f, a, b) ==
    CASE f = "add" -> operator_add(a, b)
      [] f = "sub" -> operator_sub(a, b)
      [] f = "mul" -> operator_mul(a, b)
      [] f = "truediv" -> operator_truediv(a, b)
      [] f = "floordiv" -> operator_floordiv(a, b)
      [] f = "mod" -> operator_mod(a, b)
      [] f = "pow" -> operator_pow(a, b)
Call1(f, a) ==
    CASE f = "pos" -> operator_pos(a)
      [] f = "neg" -> operator_neg(a)
(***************************************************************************)
(* str(result), as the handlers store it.  StrModelled says whether the    *)
(* model computes the string of a value.                                   *)
(***************************************************************************)
RECURSIVE NatToStr(_)
NatToStr(n) ==
    IF n < 10 THEN <<DigitChars[n + 1]>>
    ELSE NatToStr(n \div 10) \o <<DigitChars[(n % 10) + 1]>>
IntToStr(n) == IF n < 0 THEN <<"-">> \o NatToStr(-n) ELSE NatToStr(n)

\* the decimal digits of r/d for 0 <= r < d, d a power of two
RECURSIVE FracDigits(_, _)
FracDigits(r, d) ==
    IF r = 0 THEN <<>>
    ELSE <<DigitChars[((r * 10) \div d) + 1]>> \o FracDigits((r * 10) % d, d)

\* float_repr_style "short": fixed notation from 1e-4 up to 1e16
FloatToStr(n, d) ==
    LET ip == Abs(n) \div d
        fr == FracDigits(Abs(n) % d, d)
    IN  (IF n < 0 THEN <<"-">> ELSE <<>>) \o NatToStr(ip) \o <<".">>
            \o (IF fr = <<>> THEN <<"0">> ELSE fr)

StrOf(v) ==
    CASE v.k = "int" -> IntToStr(v.n)
      [] v.k = "bool" -> IF v.n = 1 THEN <<"T", "r", "u", "e">>
                         ELSE <<"F", "a", "l", "s", "e">>
      [] v.k = "bigint" -> (IF v.neg THEN <<"-">> ELSE <<>>) \o v.digits
      [] v.k = "float" -> FloatToStr(v.n, v.d)
      [] v.k \in {"float~", "complex"} -> v.repr
      [] OTHER -> <<>>

(***************************************************************************)
(* Python's tokenizer on one stripped line, for the characters the model   *)
(* covers.  A token is [t |-> type, s |-> its characters].  The type       *)
(* "SyntaxError" is a lexical error, "beyond" a construct left out of the  *)
(* model (exponents, underscores in numbers, escapes, other keywords and   *)
(* operators).                                                             *)
(***************************************************************************)
Tk(t, s) == [t |-> t, s |-> s]
OneCharOps == {"+", "-", "%", "(", ")", ",", ".", "@", "~"}
KwTrue == <<"T", "r", "u", "e">>
KwFalse == <<"F", "a", "l", "s", "e">>
KwNone == <<"N", "o", "n", "e">>
OtherKeywords == {<<"n", "o", "t">>, <<"a", "n", "d">>, <<"o", "r">>,
                  <<"i", "f">>, <<"e", "l", "s", "e">>, <<"i", "n">>,
                  <<"i", "s">>, <<"l", "a", "m", "b", "d", "a">>,
                  <<"a", "w", "a", "i", "t">>, <<"y", "i", "e", "l", "d">>,
                  <<"f", "o", "r">>, <<"a", "s">>, <<"d", "e", "f">>,
                  <<"d", "e", "l">>, <<"t", "r", "y">>, <<"w", "i", "t", "h">>,
                  <<"f", "r", "o", "m">>, <<"p", "a", "s", "s">>}

\* the first position >= i of s whose character is not in set (Len(s)+1 if none)
RECURSIVE SkipWhile(_, _, _)
SkipWhile(s, i, set) ==
    IF i <= Len(s) /\ s[i] \in set THEN SkipWhile(s, i + 1, set) ELSE i

At(s, i) == IF i >= 1 /\ i <= Len(s) THEN s[i] ELSE ""

\* the number starting at i: [tok, next]
ScanNumber(s, i) ==
    LET e1 == SkipWhile(s, i, Digits)
        hasDot == At(s, e1) = "."
        e2 == IF hasDot THEN SkipWhile(s, e1 + 1, Digits) ELSE e1
        isImag == At(s, e2) = "j"
        e3 == IF isImag THEN e2 + 1 ELSE e2
        lex == SubSeq(s, i, e2 - 1)
        intPart == SubSeq(s, i, e1 - 1)
        leadingZero == ~hasDot /\ Len(intPart) > 1 /\ intPart[1] = "0"
                          /\ \E j \in 1..Len(intPart) : intPart[j] # "0"
    IN  IF At(s, e3) \in Letters \cup {"_"} \cup Digits
            THEN [tok |-> Tk("beyond", lex), next |-> e3]
        ELSE IF leadingZero /\ ~isImag
            THEN [tok |-> Tk("SyntaxError", lex), next |-> e3]
        ELSE [tok |-> Tk(IF isImag THEN (IF hasDot THEN "beyond" ELSE "imag")
                         ELSE IF hasDot THEN "float" ELSE "int", lex),
              next |-> e3]

ScanName(s, i) ==
    LET e == SkipWhile(s, i, Letters \cup Digits)
        lex == SubSeq(s, i, e - 1)
    IN  [tok |-> IF At(s, e) = "'" \/ lex \in OtherKeywords THEN Tk("beyond", lex)
                 ELSE IF lex = KwTrue THEN Tk("True", lex)
                 ELSE IF lex = KwFalse THEN Tk("False", lex)
                 ELSE IF lex = KwNone THEN Tk("None", lex)
                 ELSE Tk("name", lex),
         next |-> e]

ScanString(s, i) ==
    LET e == SkipWhile(s, i + 1, (Letters \cup Digits \cup {" "}))
    IN  IF At(s, e) = "'" THEN [tok |-> Tk("str", SubSeq(s, i + 1, e - 1)), next |-> e + 1]
        ELSE IF e > Len(s) THEN [tok |-> Tk("SyntaxError", <<>>), next |-> e]
        ELSE [tok |-> Tk("beyond", <<>>), next |-> e + 1]

ScanToken(s, i) ==
    LET c == s[i]
    IN  CASE c \in Digits \/ (c = "." /\ At(s, i + 1) \in Digits) -> ScanNumber(s, i)
          [] c \in Letters -> ScanName(s, i)
          [] c = "'" -> ScanString(s, i)
          [] c = "*" -> IF At(s, i + 1) = "*"
                        THEN [tok |-> Tk("**", <<c, c>>), next |-> i + 2]
                        ELSE [tok |-> Tk("*", <<c>>), next |-> i + 1]
          [] c = "/" -> IF At(s, i + 1) = "/"
                        THEN [tok |-> Tk("//", <<c, c>>), next |-> i + 2]
                        ELSE [tok |-> Tk("/", <<c>>), next |-> i + 1]
          [] c \in OneCharOps /\ ~(c = "." /\ At(s, i + 1) \in Digits)
                -> [tok |-> Tk(c, <<c>>), next |-> i + 1]
          [] OTHER -> [tok |-> Tk("beyond", <<c>>), next |-> i + 1]

RECURSIVE TokenizeFrom(_, _)
TokenizeFrom(s, i) ==
    LET j == SkipWhile(s, i, {" ", "\t"})
    IN  IF j > Len(s) THEN <<>>
        ELSE LET r == ScanToken(s, j)
             IN  <<r.tok>> \o TokenizeFrom(s, r.next)
Tokenize(s) == TokenizeFrom(s, 1)
(***************************************************************************)
(* ast.parse(expr, mode="eval") on the token list: the expression grammar  *)
(* of Python restricted to                                                 *)
(*   sum     := term (('+'|'-') term)*                                     *)
(*   term    := factor (('*'|'/'|'//'|'%'|'@') factor)*                    *)
(*   factor  := ('+'|'-'|'~') factor | power                               *)
(*   power   := primary ['**' factor]                                      *)
(*   primary := atom ('(' [sum] ')' | '.' NAME)*                           *)
(*   atom    := NUMBER | NAME | STRING | True | False | None | '(' sum ')' *)
(* py is the interpreter: "3.7" builds Num, Str and NameConstant nodes,    *)
(* later ones build Constant nodes.                                        *)
(***************************************************************************)
PyVersions == {"3.7", "3.8", "3.14"}

BinOp(op, l, r) == [node |-> "BinOp", op |-> op, left |-> l, right |-> r]
UnaryOp(op, x) == [node |-> "UnaryOp", op |-> op, operand |-> x]
Constant(v) == [node |-> "Constant", value |-> v]
Num(v) == [node |-> "Num", n |-> v]
Str(v) == [node |-> "Str", s |-> v]
NameConstant(v) == [node |-> "NameConstant", value |-> v]
Name(id) == [node |-> "Name", id |-> id]
Call(f, args) == [node |-> "Call", func |-> f, args |-> args]
Attribute(v, a) == [node |-> "Attribute", value |-> v, attr |-> a]

RECURSIVE DigitsToNat(_)
DigitsToNat(ds) ==
    IF ds = <<>> THEN 0
    ELSE DigitsToNat(SubSeq(ds, 1, Len(ds) - 1)) * 10 + DigitVal(ds[Len(ds)])

RECURSIVE Pow10(_)
Pow10(k) == IF k = 0 THEN 1 ELSE 10 * Pow10(k - 1)

\* the first position of c in s, 0 if none
RECURSIVE IndexOf(_, _, _)
IndexOf(s, c, i) ==
    IF i > Len(s) THEN 0 ELSE IF s[i] = c THEN i ELSE IndexOf(s, c, i + 1)

StripZeros(ds) == SubSeq(ds, SkipWhile(ds, 1, {"0"}), Len(ds))

\* the value of a number token; an outcome, Beyond when not modelled
IntLiteral(ds) ==
    LET sig == StripZeros(ds)
    IN  IF Len(sig) <= MaxIntDigits /\ DigitsToNat(sig) <= MaxMag
        THEN Ok(IntV(DigitsToNat(sig)))
        ELSE Ok(BigIntV(FALSE, sig))
FloatLiteral(lex) ==
    LET dot == IndexOf(lex, ".", 1)
        ds == StripZeros(SubSeq(lex, 1, dot - 1) \o SubSeq(lex, dot + 1, Len(lex)))
        k == Len(lex) - dot
    IN  IF Len(ds) > MaxIntDigits \/ k > 4 THEN Beyond
        ELSE MkFloat(DigitsToNat(ds), Pow10(k))
ImagLiteral(ds) ==
    LET sig == StripZeros(ds)
    IN  IF Len(sig) > MaxIntDigits THEN Beyond
        ELSE Ok(ComplexV(sig = <<>>, NatToStr(DigitsToNat(sig)) \o <<"j">>))
LiteralValue(tok) ==
    CASE tok.t = "int" -> IntLiteral(tok.s)
      [] tok.t = "float" -> FloatLiteral(tok.s)
      [] tok.t = "imag" -> ImagLiteral(tok.s)
      [] tok.t = "str" -> Ok(StrV(tok.s))
      [] tok.t = "True" -> Ok(BoolV(TRUE))
      [] tok.t = "False" -> Ok(BoolV(FALSE))
      [] tok.t = "None" -> Ok(NoneV)

LiteralNode(py, tok, v) ==
    IF py # "3.7" THEN Constant(v)
    ELSE CASE tok.t \in {"int", "float", "imag"} -> Num(v)
           [] tok.t = "str" -> Str(v)
           [] OTHER -> NameConstant(v)

POk(n, pos) == [ok |-> TRUE, node |-> n, pos |-> pos, exc |-> ""]
PFail(e) == [ok |-> FALSE, node |-> [node |-> "none"], pos |-> 0, exc |-> e]
TokAt(toks, i) == IF i <= Len(toks) THEN toks[i].t ELSE "EOF"

BinOpOf(t) ==
    CASE t = "+" -> "Add" [] t = "-" -> "Sub" [] t = "*" -> "Mult"
      [] t = "/" -> "Div" [] t = "//" -> "FloorDiv" [] t = "%" -> "Mod"
      [] t = "@" -> "MatMult" [] t = "**" -> "Pow"
UnaryOpOf(t) ==
    CASE t = "+" -> "UAdd" [] t = "-" -> "USub" [] t = "~" -> "Invert"

RECURSIVE ParseSum(_, _, _), SumRest(_, _, _, _), ParseTerm(_, _, _),
          TermRest(_, _, _, _), ParseFactor(_, _, _), ParsePower(_, _, _),
          ParsePrimary(_, _, _), Trailers(_, _, _, _), ParseAtom(_, _, _)

\* p, a parse result, continued by the loop of its level, or the failure
ThenSumRest(py, toks, p) == IF p.ok THEN SumRest(py, toks, p.node, p.pos) ELSE p
ThenTermRest(py, toks, p) == IF p.ok THEN TermRest(py, toks, p.node, p.pos) ELSE p
ThenTrailers(py, toks, p) == IF p.ok THEN Trailers(py, toks, p.node, p.pos) ELSE p
\* the node of operator token i over left and the parsed right operand r
Binary(toks, i, left, r) ==
    IF r.ok THEN POk(BinOp(BinOpOf(toks[i].t), left, r.node), r.pos) ELSE r
Unary(toks, i, x) ==
    IF x.ok THEN POk(UnaryOp(UnaryOpOf(toks[i].t), x.node), x.pos) ELSE x
\* e, parsed after an opening parenthesis, must be followed by ")"
Closed(toks, e) ==
    IF ~e.ok THEN e
    ELSE IF TokAt(toks, e.pos) = ")" THEN POk(e.node, e.pos + 1)
    ELSE PFail("SyntaxError")
CallOf(n, a) == IF a.ok THEN POk(Call(n, <<a.node>>), a.pos) ELSE a

ParseSum(py, toks, i) == ThenSumRest(py, toks, ParseTerm(py, toks, i))
\* left-associative: the tree built so far is the left operand of the next
SumRestRightAssoc(py, toks, left, i) ==
    IF TokAt(toks, i) \in {"+", "-"}
    THEN Binary(toks, i, left, ParseSum(py, toks, i + 1))
    ELSE POk(left, i)
SumRest(py, toks, left, i) ==
    IF TokAt(toks, i) \in {"+", "-"}
    THEN ThenSumRest(py, toks, Binary(toks, i, left, ParseTerm(py, toks, i + 1)))
    ELSE POk(left, i)

ParseTerm(py, toks, i) == ThenTermRest(py, toks, ParseFactor(py, toks, i))
TermRest(py, toks, left, i) ==
    IF TokAt(toks, i) \in {"*", "/", "//", "%", "@"}
    THEN ThenTermRest(py, toks, Binary(toks, i, left, ParseFactor(py, toks, i + 1)))
    ELSE POk(left, i)

ParseFactor(py, toks, i) ==
    IF TokAt(toks, i) \in {"+", "-", "~"}
    THEN Unary(toks, i, ParseFactor(py, toks, i + 1))
    ELSE ParsePower(py, toks, i)

\* right-associative, and the exponent may carry its own unary operator
PowerRest(py, toks, b) ==
    IF b.ok /\ TokAt(toks, b.pos) = "**"
    THEN Binary(toks, b.pos, b.node, ParseFactor(py, toks, b.pos + 1))
    ELSE b
ParsePower(py, toks, i) == PowerRest(py, toks, ParsePrimary(py, toks, i))

ParsePrimary(py, toks, i) == ThenTrailers(py, toks, ParseAtom(py, toks, i))
Trailers(py, toks, n, i) ==
    CASE TokAt(toks, i) = "(" ->
            ThenTrailers(py, toks,
                IF TokAt(toks, i + 1) = ")" THEN POk(Call(n, <<>>), i + 2)
                ELSE CallOf(n, Closed(toks, ParseSum(py, toks, i + 1))))
      [] TokAt(toks, i) = "." ->
            ThenTrailers(py, toks,
                IF TokAt(toks, i + 1) = "name"
                THEN POk(Attribute(n, toks[i + 1].s), i + 2)
                ELSE PFail("SyntaxError"))
      [] TokAt(toks, i) = "str" /\ n.node \in {"Constant", "Str"} -> PFail("beyond")
      [] OTHER -> POk(n, i)

Literal(py, tok, v) ==
    IF v.ok THEN [ok |-> TRUE, node |-> LiteralNode(py, tok, v.val)] ELSE PFail("beyond")
AtPos(p, pos) == IF p.ok THEN POk(p.node, pos) ELSE p
ParseAtom(py, toks, i) ==
    CASE TokAt(toks, i) \in {"int", "float", "imag", "str", "True", "False", "None"} ->
            AtPos(Literal(py, toks[i], LiteralValue(toks[i])), i + 1)
      [] TokAt(toks, i) = "name" -> POk(Name(toks[i].s), i + 1)
      [] TokAt(toks, i) = "(" ->
            IF TokAt(toks, i + 1) = ")" THEN PFail("beyond")
            ELSE Closed(toks, ParseSum(py, toks, i + 1))
      [] TokAt(toks, i) \in {"*", "**", "."} -> PFail("beyond")
      [] OTHER -> PFail("SyntaxError")

\* the whole token list must be one expression
Whole(toks, e) ==
    IF ~e.ok THEN e
    ELSE IF e.pos = Len(toks) + 1 THEN e
    ELSE PFail("SyntaxError")
TokenTypes(toks) == {toks[i].t : i \in 1..Len(toks)}
ParseTokens(py, toks) ==
    IF "beyond" \in TokenTypes(toks) \/ "," \in TokenTypes(toks) THEN PFail("beyond")
    ELSE IF "SyntaxError" \in TokenTypes(toks) THEN PFail("SyntaxError")
    ELSE Whole(toks, ParseSum(py, toks, 1))

\* the tree of the whole text, or the exception ast.parse raises
ast_parse(py, expr) == ParseTokens(py, Tokenize(expr))

(***************************************************************************)
(* The evaluator: _ops, _unary_ops, _eval_node, safe_eval.                 *)
(***************************************************************************)
\* the length limit of safe_eval
MaxExprLen == 100
TooLongMsg == "Expression too long"
UnsupportedMsg == "Unsupported or unsafe expression"

\* the module-level dictionaries: AST operator class |-> operator function
InitOps == [Add |-> "add", Sub |-> "sub", Mult |-> "mul", Div |-> "truediv",
            FloorDiv |-> "floordiv", Mod |-> "mod", Pow |-> "pow"]
InitUnaryOps == [UAdd |-> "pos", USub |-> "neg"]

\* isinstance(node.value, (int, float)): bool is a subclass of int
IsIntOrFloat(v) == v.k \in {"int", "bigint", "float", "float~", "bool"}

\* hasattr(ast, "Num") and isinstance(node, ast.Num): ast.Num is the node
\* class of every number up to Python 3.7, from 3.8 to 3.13 a deprecated
\* alias whose instance check accepts a Constant holding an int, float or
\* complex that is not a bool, and is gone in 3.14
IsAstNum(py, node) ==
    CASE py = "3.7" -> node.node = "Num"
      [] py = "3.8" -> node.node = "Constant"
                        /\ node.value.k \in {"int", "bigint", "float", "float~", "complex"}
      [] OTHER -> FALSE
\* node.n: the attribute of Num, from 3.8 on an alias of Constant.value
NumN(node) == IF node.node = "Num" THEN node.n ELSE node.value

RECURSIVE eval_node(_, _, _, _)
eval_node(node, ops, uops, py) ==
    IF node.node = "BinOp" /\ node.op \in DOMAIN ops
    THEN LET l == eval_node(node.left, ops, uops, py)
         IN  IF ~l.ok THEN l
             ELSE LET r == eval_node(node.right, ops, uops, py)
                  IN  IF ~r.ok THEN r ELSE Call2(ops[node.op], l.val, r.val)
    ELSE IF node.node = "UnaryOp" /\ node.op \in DOMAIN uops
    THEN LET x == eval_node(node.operand, ops, uops, py)
         IN  IF ~x.ok THEN x ELSE Call1(uops[node.op], x.val)
    ELSE IF node.node = "Constant" /\ IsIntOrFloat(node.value) THEN Ok(node.value)
    ELSE IF IsAstNum(py, node) THEN Ok(NumN(node))
    ELSE Raise("ValueError", UnsupportedMsg)

\* str.strip()
RECURSIVE LastNonSpace(_, _)
LastNonSpace(s, i) ==
    IF i >= 1 /\ s[i] \in Whitespace THEN LastNonSpace(s, i - 1) ELSE i
Strip(s) == SubSeq(s, SkipWhile(s, 1, Whitespace), LastNonSpace(s, Len(s)))

\* the check of line 57
TooLongOffByOne(expr) == Len(expr) >= MaxExprLen
TooLong(expr) == Len(expr) > MaxExprLen

safe_eval(text, ops, uops, py) ==
    LET expr == Strip(text)
    IN  IF TooLong(expr) THEN Raise("ValueError", TooLongMsg)
        ELSE LET tree == ast_parse(py, expr)
             IN  IF ~tree.ok THEN Raise(tree.exc, "")
                 ELSE eval_node(tree.node, ops, uops, py)
(***************************************************************************)
(* Input texts.                                                            *)
(***************************************************************************)
\* Calculation.result is String(64), Calculation.expression String(255)
ResultMaxLen == 64
ExpressionMaxLen == 255
\* most whitespace characters put before or after a text of the length family
MaxPad == 2

Rep(c, n) == [i \in 1..n |-> c]
TxSum ==
    <<"2", " ", "+", " ", "3">>
TxPrec ==
    <<"2", " ", "+", " ", "3", " ", "*", " ", "4">>
TxParen ==
    <<"(", "2", " ", "+", " ", "3", ")", " ", "*", " ", "4">>
TxPow ==
    <<"2", " ", "*", "*", " ", "1", "0">>
TxFloorDiv ==
    <<"7", " ", "/", "/", " ", "2">>
TxMod ==
    <<"7", " ", "%", " ", "2">>
TxDivZero ==
    <<"1", " ", "/", " ", "0">>
TxName ==
    <<"a", " ", "+", " ", "1">>
TxImport ==
    <<"_", "_", "i", "m", "p", "o", "r", "t", "_", "_", "(", "'", "o", "s",
      "'", ")", ".", "s", "y", "s", "t", "e", "m", "(", "'", "l", "s", "'",
      ")">>
TxBoolSum ==
    <<"T", "r", "u", "e", " ", "+", " ", "1">>
TxBool ==
    <<"T", "r", "u", "e">>
TxNone ==
    <<"N", "o", "n", "e">>
TxStr ==
    <<"'", "a", "'">>
TxStrSum ==
    <<"'", "a", "'", " ", "+", " ", "1">>
TxImag ==
    <<"1", "j">>
TxImagZero ==
    <<"1", " ", "/", "/", " ", "0", "j">>
TxSqrtNeg ==
    <<"(", "-", "8", ")", " ", "*", "*", " ", "0", ".", "5">>
TxSqrtNegDiv ==
    <<"(", "-", "8", ")", " ", "*", "*", " ", "0", ".", "5", " ", "/", "/",
      " ", "0">>
TxSqrt ==
    <<"2", " ", "*", "*", " ", "0", ".", "5">>
TxNested ==
    <<"2", " ", "*", " ", "(", "3", " ", "-", " ", "a", ")">>
TxNestedDivZero ==
    <<"2", " ", "+", " ", "6", " ", "%", " ", "(", "3", " ", "-", " ", "3",
      ")">>
TxFloatDivZero ==
    <<"1", ".", "5", " ", "/", "/", " ", "0", ".", "0">>
TxInvert ==
    <<"~", "1">>
TxMatMult ==
    <<"1", " ", "@", " ", "2">>
TxCall ==
    <<"f", "(", "1", ")">>
TxSyntax ==
    <<"2", " ", "+">>
TxTwo ==
    <<"1", " ", "2">>
TxPadded ==
    <<" ", "\t", "7", " ", "/", "/", " ", "2", "\n">>
TxNegPow ==
    <<"2", " ", "*", "*", " ", "-", "1">>
TxHalf ==
    <<"7", " ", "/", " ", "2">>
TxNegMod ==
    <<"-", "7", " ", "%", " ", "2">>
TxBlank ==
    <<" ", " ">>
TxEmpty ==
    <<>>
TxZeroLeftDiv ==
    <<"a", " ", "/", " ", "0">>
TxDigits65 == Rep("1", ResultMaxLen + 1)

\* "1 +", n - 4 spaces and "1": a sum of n characters
LongSum(n) == <<"1", " ", "+">> \o Rep(" ", n - 4) \o <<"1">>
PadChars == <<" ", "\t", "\n">>
Pad(k) == [i \in 1..k |-> PadChars[((i - 1) % 3) + 1]]
LengthFamily ==
    {Pad(l) \o LongSum(n) \o Pad(r) :
        n \in (MaxExprLen - 1)..(MaxExprLen + 1), l \in 0..MaxPad, r \in 0..MaxPad}

EvalTexts ==
    {TxSum, TxPrec, TxParen, TxPow, TxFloorDiv,
     TxMod, TxDivZero, TxName, TxImport, TxBoolSum,
     TxBool, TxNone, TxStr, TxStrSum, TxImag,
     TxImagZero, TxSqrtNeg, TxSqrtNegDiv, TxSqrt, TxNested,
     TxNestedDivZero, TxFloatDivZero, TxInvert, TxMatMult, TxCall,
     TxSyntax, TxTwo, TxPadded, TxNegPow, TxHalf,
     TxNegMod, TxBlank, TxEmpty, TxDigits65, TxZeroLeftDiv}
    \cup LengthFamily

\* the texts the requests of the application model carry
AppTexts ==
    {TxPadded, TxSyntax, TxDivZero, TxName, TxBlank, TxDigits65,
     Pad(1) \o LongSum(MaxExprLen + 1)}

(***************************************************************************)
(* State.                                                                  *)
(***************************************************************************)
VARIABLES
    py,          \* the interpreter the process runs on
    db,          \* the database behind DATABASE_URL
    ops,         \* the module global _ops
    unary_ops,   \* the module global _unary_ops
    records,     \* the rows of the table "calculations", in id order
    req,         \* the requests in flight, by worker
    nreq,        \* requests received so far
    ev,          \* one call of safe_eval, step by step
    gen,         \* an expression typed token by token, and its evaluation
    arith        \* one floor division and one modulo of two integers

vars == <<py, db, ops, unary_ops, records, req, nreq, ev, gen, arith>>

\* the parts of the state a specification does not use
NoEv == [pc |-> "off"]
NoGen == [pc |-> "off"]
NoArith == [pc |-> "off"]

(***************************************************************************)
(* The application: /calculate and /api/calc.                              *)
(***************************************************************************)
\* requests the model receives in all
MaxRequests == 2
Workers == {"w1", "w2"}
\* "sqlite" (the default URL) stores a string longer than the column;
\* "strict" (PostgreSQL, MySQL in strict mode) rejects the INSERT
DbKinds == {"sqlite", "strict"}

Idle == [pc |-> "idle", route |-> "", id |-> 0, raw |-> <<>>,
         expression |-> <<>>, outcome |-> Ok(NoneV), status |-> 0]

\* _eval_node reads _ops and _unary_ops and never writes them
OpsAfterEvalPop(d, tree) == [k \in DOMAIN d \ {tree.node.op} |-> d[k]]
OpsAfterEval(d, tree) == d

\* lines 72-75 and 93-95: the handler strips the parameter and answers an
\* empty expression at once (302 with a flash, or 400)
Begin(w, route, raw) ==
    /\ req[w].pc = "idle"
    /\ nreq < MaxRequests
    /\ nreq' = nreq + 1
    /\ LET expression == Strip(raw)
       IN  req' = [req EXCEPT ![w] =
                [pc |-> IF expression = <<>> THEN "done" ELSE "received",
                 route |-> route, id |-> nreq + 1, raw |-> raw,
                 expression |-> expression, outcome |-> Ok(NoneV),
                 status |-> IF expression # <<>> THEN 0
                            ELSE IF route = "calculate" THEN 302 ELSE 400]]
    /\ UNCHANGED <<py, db, ops, unary_ops, records, ev, gen, arith>>

Calculate(w, raw) == Begin(w, "calculate", raw)
ApiCalc(w, raw) == Begin(w, "api_calc", raw)

\* lines 77 and 97: result = safe_eval(expression)
Evaluate(w) ==
    /\ req[w].pc = "received"
    /\ LET expr == Strip(req[w].expression)
           tree == ast_parse(py, expr)
       IN  /\ req' = [req EXCEPT ![w].pc = "evaluated",
                                 ![w].outcome = safe_eval(req[w].expression, ops, unary_ops, py)]
           /\ ops' = IF ~TooLong(expr) /\ tree.ok /\ tree.node.node = "BinOp"
                     THEN OpsAfterEval(ops, tree) ELSE ops
    /\ UNCHANGED <<py, db, unary_ops, records, nreq, ev, gen, arith>>

\* db.session.commit() of one new row: the rows afterwards, or the rows
\* unchanged when the database rejects the INSERT
Row(r) == [id |-> 0, expression |-> r.expression, result |-> StrOf(r.outcome.val),
           by |-> r.id, outcome |-> r.outcome]
Fits(row) == Len(row.expression) <= ExpressionMaxLen /\ Len(row.result) <= ResultMaxLen
Rejected(kind, row) == kind = "strict" /\ ~Fits(row)
Insert(rows, row) == Append(rows, [row EXCEPT !.id = Len(rows) + 1])

\* lines 78-81 and 98-101, reached only when safe_eval returned
StoreAlways(r) == TRUE
Store(r) == r.outcome.ok

Commit(w) ==
    /\ req[w].pc = "evaluated"
    /\ Store(req[w])
    /\ LET row == Row(req[w])
       IN  IF Rejected(db, row)
           THEN /\ records' = records
                /\ req' = [req EXCEPT ![w].pc = "done",
                              ![w].status = IF req[w].route = "calculate" THEN 302 ELSE 400]
           ELSE /\ records' = Insert(records, row)
                /\ req' = [req EXCEPT ![w].pc = "done",
                              ![w].status = IF req[w].route = "calculate" THEN 302 ELSE 200]
    /\ UNCHANGED <<py, db, ops, unary_ops, nreq, ev, gen, arith>>

\* lines 82-84 and 102-103: except Exception
Fail(w) ==
    /\ req[w].pc = "evaluated"
    /\ ~req[w].outcome.ok
    /\ ~Store(req[w])
    /\ req' = [req EXCEPT ![w].pc = "done",
                  ![w].status = IF req[w].route = "calculate" THEN 302 ELSE 400]
    /\ UNCHANGED <<py, db, ops, unary_ops, records, nreq, ev, gen, arith>>

\* the response is sent and the worker takes the next request
Finish(w) ==
    /\ req[w].pc = "done"
    /\ req' = [req EXCEPT ![w] = Idle]
    /\ UNCHANGED <<py, db, ops, unary_ops, records, nreq, ev, gen, arith>>

Init ==
    /\ py \in PyVersions
    /\ db \in DbKinds
    /\ ops = InitOps
    /\ unary_ops = InitUnaryOps
    /\ records = <<>>
    /\ req = [w \in Workers |-> Idle]
    /\ nreq = 0
    /\ ev = NoEv
    /\ gen = NoGen
    /\ arith = NoArith

Next ==
    \E w \in Workers :
        \/ \E raw \in AppTexts : Calculate(w, raw)
        \/ \E raw \in AppTexts : ApiCalc(w, raw)
        \/ Evaluate(w)
        \/ Commit(w)
        \/ Fail(w)
        \/ Finish(w)

Spec == Init /\ [][Next]_vars
(***************************************************************************)
(* One call of safe_eval, statement by statement (lines 56-60).            *)
(***************************************************************************)
NoTree == PFail("unparsed")
Called(t) == [pc |-> "called", text |-> t, expr |-> <<>>, tree |-> NoTree,
              outcome |-> Ok(NoneV)]

\* line 56
EvStrip ==
    /\ ev.pc = "called"
    /\ ev' = [ev EXCEPT !.pc = "stripped", !.expr = Strip(ev.text)]
    /\ UNCHANGED <<py, db, ops, unary_ops, records, req, nreq, gen, arith>>

\* lines 57-58
EvTooLong ==
    /\ ev.pc = "stripped"
    /\ TooLong(ev.expr)
    /\ ev' = [ev EXCEPT !.pc = "raised", !.outcome = Raise("ValueError", TooLongMsg)]
    /\ UNCHANGED <<py, db, ops, unary_ops, records, req, nreq, gen, arith>>

\* line 59
Parsed(e, tree) ==
    IF tree.ok THEN [e EXCEPT !.pc = "parsed", !.tree = tree]
    ELSE [e EXCEPT !.pc = "raised", !.tree = tree, !.outcome = Raise(tree.exc, "")]
EvParse ==
    /\ ev.pc = "stripped"
    /\ ~TooLong(ev.expr)
    /\ ev' = Parsed(ev, ast_parse(py, ev.expr))
    /\ UNCHANGED <<py, db, ops, unary_ops, records, req, nreq, gen, arith>>

\* line 60
Walked(e, o) == [e EXCEPT !.pc = IF o.ok THEN "returned" ELSE "raised", !.outcome = o]
EvWalk ==
    /\ ev.pc = "parsed"
    /\ ev' = Walked(ev, eval_node(ev.tree.node, ops, unary_ops, py))
    /\ UNCHANGED <<py, db, ops, unary_ops, records, req, nreq, gen, arith>>

InitEval ==
    /\ py \in PyVersions
    /\ db = "sqlite"
    /\ ops = InitOps
    /\ unary_ops = InitUnaryOps
    /\ records = <<>>
    /\ req = [w \in Workers |-> Idle]
    /\ nreq = 0
    /\ ev \in {Called(t) : t \in EvalTexts}
    /\ gen = NoGen
    /\ arith = NoArith

NextEval == EvStrip \/ EvTooLong \/ EvParse \/ EvWalk

SpecEval == InitEval /\ [][NextEval]_vars

EvFinished == ev.pc \in {"returned", "raised"} /\ ~IsBeyond(ev.outcome)

(***************************************************************************)
(* Trees.                                                                  *)
(***************************************************************************)
RECURSIVE Nodes(_)
Nodes(n) ==
    {n} \cup
    CASE n.node = "BinOp" -> Nodes(n.left) \cup Nodes(n.right)
      [] n.node = "UnaryOp" -> Nodes(n.operand)
      [] n.node = "Attribute" -> Nodes(n.value)
      [] n.node = "Call" ->
            Nodes(n.func) \cup UNION {Nodes(n.args[i]) : i \in 1..Len(n.args)}
      [] OTHER -> {}

\* the literal a node holds, if it is a literal
IsLiteralNode(n) == n.node \in {"Constant", "Num", "Str", "NameConstant"}
LiteralOf(n) ==
    CASE n.node = "Num" -> n.n
      [] n.node = "Str" -> n.s
      [] OTHER -> n.value
\* an integer or floating-point literal
IsNumberLiteral(n) ==
    IsLiteralNode(n) /\ LiteralOf(n).k \in {"int", "bigint", "float", "float~"}
\* the whitelist of the specification
Whitelisted(n) ==
    \/ IsNumberLiteral(n)
    \/ n.node = "UnaryOp" /\ n.op \in {"UAdd", "USub"}
    \/ n.node = "BinOp" /\ n.op \in {"Add", "Sub", "Mult", "Div", "FloorDiv", "Mod", "Pow"}

\* Whether the walk of n applies an operator of kinds to operands that
\* satisfy Hit: the operands before it in evaluation order returned.
RECURSIVE Applies(_, _, _)
Applies(n, kinds, py0) ==
    CASE n.node = "BinOp" /\ n.op \in DOMAIN InitOps ->
            LET l == eval_node(n.left, InitOps, InitUnaryOps, py0)
                r == eval_node(n.right, InitOps, InitUnaryOps, py0)
            IN  \/ Applies(n.left, kinds, py0)
                \/ l.ok /\ Applies(n.right, kinds, py0)
                \/ /\ l.ok /\ r.ok
                   /\ \/ "divzero" \in kinds /\ n.op \in {"Div", "FloorDiv", "Mod"}
                            /\ IsZero(r.val)
                      \/ "negroot" \in kinds /\ n.op = "Pow" /\ IsExact(l.val)
                            /\ IsExact(r.val) /\ l.val.n < 0 /\ r.val.d # 1
      [] n.node = "UnaryOp" /\ n.op \in DOMAIN InitUnaryOps -> Applies(n.operand, kinds, py0)
      [] OTHER -> FALSE

IsReal(v) == v.k \in {"int", "bigint", "bool", "float", "float~"}

(***************************************************************************)
(* Claims about one call of safe_eval (SpecEval).                          *)
(***************************************************************************)
\* C2: a tree with a node outside the whitelist (numeric literal, unary
\* + and -, the seven binary operators), at any depth, never evaluates to
\* a value.
C2_NonWhitelistedNodeRejected ==
    (ev.pc = "returned") => \A n \in Nodes(ev.tree.node) : Whitelisted(n)

\* C3: an expression with a literal that is not an integer or a float
\* (string, boolean, None, complex), alone or as an operand, fails with
\* the unsupported-syntax error.
C3_OnlyNumberLiterals ==
    (EvFinished /\ ev.tree.ok
        /\ \E n \in Nodes(ev.tree.node) : IsLiteralNode(n) /\ ~IsNumberLiteral(n))
    => (ev.pc = "raised" /\ ev.outcome.exc = "ValueError"
            /\ ev.outcome.msg = UnsupportedMsg)

\* t is s without its leading and trailing whitespace
IsTrimOf(t, s) ==
    \E i \in 1..(Len(s) + 1) : \E j \in 0..Len(s) :
        /\ t = SubSeq(s, i, j)
        /\ \A k \in 1..Len(s) : (k < i \/ k > j) => s[k] \in Whitespace
        /\ (i <= j => s[i] \notin Whitespace /\ s[j] \notin Whitespace)
        /\ (i > j => (i = Len(s) + 1 /\ j = 0) \/ Len(s) = 0)

\* C4: the text is trimmed before the length check; the call fails with
\* "Expression too long", without parsing, exactly when the trimmed text
\* has more than 100 characters.
C4_TooLongIffTrimmedOver100 ==
    (ev.pc \notin {"off", "called"}) =>
        /\ IsTrimOf(ev.expr, ev.text)
        /\ (ev.pc # "stripped") =>
              /\ (ev.outcome = Raise("ValueError", TooLongMsg)) <=> (Len(ev.expr) > 100)
              /\ (Len(ev.expr) > 100) => ev.tree = NoTree
              /\ (Len(ev.expr) <= 100) => ev.tree # NoTree
C4_Witness ==
    /\ ev.pc = "returned"
    /\ Len(ev.text) > 100
    /\ Len(ev.expr) = 100
    /\ ev.outcome.ok

\* C5: a Div, FloorDiv or Mod whose right operand evaluates to zero makes
\* the call end in ZeroDivisionError.
C5_ZeroDivisorRaisesDivisionByZero ==
    (EvFinished /\ ev.tree.ok /\ Applies(ev.tree.node, {"divzero"}, py))
    => (ev.pc = "raised" /\ ev.outcome.exc = "ZeroDivisionError")

\* C9: a power of a negative base to a fractional exponent ends in an
\* error, and every value returned is a real integer or float.
C9_PowNonRealIsError ==
    /\ (EvFinished /\ ev.tree.ok /\ Applies(ev.tree.node, {"negroot"}, py))
            => ev.pc = "raised"
    /\ (ev.pc = "returned" /\ \E n \in Nodes(ev.tree.node) : n.node = "BinOp" /\ n.op = "Pow")
            => IsReal(ev.outcome.val)

\* no evaluation of the chosen texts leaves the modelled number domain
EvalInModel == ev.pc # "off" => ~IsBeyond(ev.outcome)
(***************************************************************************)
(* Expressions over integer literals, typed token by token and then        *)
(* evaluated by safe_eval.                                                 *)
(***************************************************************************)
\* most tokens of a typed expression
MaxTokens == 5
GenLiterals == {"2", "3"}
BinaryToks == {"+", "-", "*", "/", "//", "%", "**"}
\* the worked examples of the specification, with their values
Examples ==
    {[toks |-> <<"2", "+", "3">>, value |-> 5],
     [toks |-> <<"2", "+", "3", "*", "4">>, value |-> 14],
     [toks |-> <<"(", "2", "+", "3", ")", "*", "4">>, value |-> 20],
     [toks |-> <<"2", "**", "10">>, value |-> 1024],
     [toks |-> <<"7", "//", "2">>, value |-> 3],
     [toks |-> <<"7", "%", "2">>, value |-> 1]}

TokChars(t) ==
    CASE t = "**" -> <<"*", "*">>
      [] t = "//" -> <<"/", "/">>
      [] t = "10" -> <<"1", "0">>
      [] OTHER -> <<t>>
\* the tokens as text, one space between two tokens
RECURSIVE Render(_)
Render(toks) ==
    IF toks = <<>> THEN <<>>
    ELSE IF Len(toks) = 1 THEN TokChars(toks[1])
    ELSE TokChars(toks[1]) \o <<" ">> \o Render(Tail(toks))

Count(toks, t) == Cardinality({i \in 1..Len(toks) : toks[i] = t})
Depth(toks) == Count(toks, "(") - Count(toks, ")")
ExpectOperand(toks) == toks = <<>> \/ toks[Len(toks)] \in BinaryToks \cup {"("}
Complete(toks) == toks # <<>> /\ ~ExpectOperand(toks) /\ Depth(toks) = 0
\* tokens still needed to complete toks
Needed(toks) == Depth(toks) + (IF ExpectOperand(toks) THEN 1 ELSE 0)
MayFollow(toks, t) ==
    IF ExpectOperand(toks) THEN t \in GenLiterals \cup {"(", "+", "-"}
    ELSE t \in BinaryToks \/ (t = ")" /\ Depth(toks) > 0)

Typing(toks) == [pc |-> "typing", toks |-> toks, outcome |-> Ok(NoneV)]

TypeToken(t) ==
    /\ gen.pc = "typing"
    /\ MayFollow(gen.toks, t)
    /\ Len(gen.toks) + 1 + Needed(Append(gen.toks, t)) <= MaxTokens
    /\ gen' = [gen EXCEPT !.toks = Append(gen.toks, t)]
    /\ UNCHANGED <<py, db, ops, unary_ops, records, req, nreq, ev, arith>>

Submit ==
    /\ gen.pc = "typing"
    /\ Complete(gen.toks)
    /\ gen' = [gen EXCEPT !.pc = "done",
                          !.outcome = safe_eval(Render(gen.toks), ops, unary_ops, py)]
    /\ UNCHANGED <<py, db, ops, unary_ops, records, req, nreq, ev, arith>>

InitParse ==
    /\ py \in PyVersions
    /\ db = "sqlite"
    /\ ops = InitOps
    /\ unary_ops = InitUnaryOps
    /\ records = <<>>
    /\ req = [w \in Workers |-> Idle]
    /\ nreq = 0
    /\ ev = NoEv
    /\ gen \in {Typing(<<>>)} \cup {Typing(e.toks) : e \in Examples}
    /\ arith = NoArith

NextParse ==
    \/ \E t \in GenLiterals \cup BinaryToks \cup {"(", ")"} : TypeToken(t)
    \/ Submit

SpecParse == InitParse /\ [][NextParse]_vars

(***************************************************************************)
(* The reference evaluator of C6: one pass over the tokens that applies    *)
(* each operator as soon as its operands are known, driven by binding      *)
(* powers: + - below * / // % below unary + - below **, ** grouping to     *)
(* the right.  It builds no tree.                                          *)
(***************************************************************************)
LeftPower(t) ==
    CASE t \in {"+", "-"} -> 10
      [] t \in {"*", "/", "//", "%"} -> 20
      [] t = "**" -> 40
\* the least power an operator must have to extend the right operand
RightPower(t) ==
    CASE t \in {"+", "-"} -> 11
      [] t \in {"*", "/", "//", "%"} -> 21
      [] t = "**" -> 30
RefFn(t) ==
    CASE t = "+" -> "add" [] t = "-" -> "sub" [] t = "*" -> "mul"
      [] t = "/" -> "truediv" [] t = "//" -> "floordiv" [] t = "%" -> "mod"
      [] t = "**" -> "pow"

RefAt(o, pos) == [o |-> o, pos |-> pos]
\* operands are evaluated left first; the first exception wins
RefBinary(t, l, r) ==
    RefAt(IF ~l.o.ok THEN l.o ELSE IF ~r.o.ok THEN r.o
          ELSE Call2(RefFn(t), l.o.val, r.o.val), r.pos)
RefUnary(t, x) ==
    RefAt(IF ~x.o.ok THEN x.o
          ELSE IF t = "-" THEN operator_neg(x.o.val) ELSE operator_pos(x.o.val), x.pos)
RefClose(x) == RefAt(x.o, x.pos + 1)

RECURSIVE RefExpr(_, _, _), RefLoop(_, _, _)
RefPrefix(toks, i) ==
    CASE toks[i] = "(" -> RefClose(RefExpr(toks, i + 1, 0))
      [] toks[i] \in {"+", "-"} -> RefUnary(toks[i], RefExpr(toks, i + 1, 30))
      [] OTHER -> RefAt(Ok(IntV(DigitsToNat(TokChars(toks[i])))), i + 1)
RefExpr(toks, i, least) == RefLoop(toks, RefPrefix(toks, i), least)
RefLoop(toks, acc, least) ==
    IF acc.pos <= Len(toks) /\ toks[acc.pos] \in BinaryToks
          /\ LeftPower(toks[acc.pos]) >= least
    THEN RefLoop(toks,
                 RefBinary(toks[acc.pos], acc,
                           RefExpr(toks, acc.pos + 1, RightPower(toks[acc.pos]))),
                 least)
    ELSE acc
Reference(toks) == RefExpr(toks, 1, 0).o

\* C6: on every well-formed expression over integer literals,
\* parentheses, unary + - and the seven binary operators, safe_eval
\* returns what the reference evaluator returns (the same value or the
\* same exception), and the worked examples have their stated values.
C6_AgreesWithReference ==
    (gen.pc = "done") =>
        /\ gen.outcome = Reference(gen.toks)
        /\ \A e \in Examples : gen.toks = e.toks => gen.outcome = Ok(IntV(e.value))
C6_Witness ==
    /\ gen.pc = "done"
    /\ gen.toks = <<"2", "+", "3", "*", "4">>
    /\ gen.outcome = Ok(IntV(14))

(***************************************************************************)
(* One floor division and one modulo of two integers, through _eval_node.  *)
(***************************************************************************)
\* largest absolute value of an operand
MaxOperand == 7
\* the tree of an integer as the parser builds it: a negative number is
\* the negation of a literal
IntNode(n) == IF n < 0 THEN UnaryOp("USub", Constant(IntV(-n))) ELSE Constant(IntV(n))

FloorDivide ==
    /\ arith.pc = "start"
    /\ arith' = [arith EXCEPT !.pc = "divided",
            !.q = eval_node(BinOp("FloorDiv", IntNode(arith.a), IntNode(arith.b)),
                            ops, unary_ops, py)]
    /\ UNCHANGED <<py, db, ops, unary_ops, records, req, nreq, ev, gen>>
Modulo ==
    /\ arith.pc = "divided"
    /\ arith' = [arith EXCEPT !.pc = "done",
            !.r = eval_node(BinOp("Mod", IntNode(arith.a), IntNode(arith.b)),
                            ops, unary_ops, py)]
    /\ UNCHANGED <<py, db, ops, unary_ops, records, req, nreq, ev, gen>>

InitArith ==
    /\ py \in PyVersions
    /\ db = "sqlite"
    /\ ops = InitOps
    /\ unary_ops = InitUnaryOps
    /\ records = <<>>
    /\ req = [w \in Workers |-> Idle]
    /\ nreq = 0
    /\ ev = NoEv
    /\ gen = NoGen
    /\ arith \in {[pc |-> "start", a |-> a, b |-> b, q |-> Ok(NoneV), r |-> Ok(NoneV)] :
                    a \in -MaxOperand..MaxOperand, b \in -MaxOperand..MaxOperand}

NextArith == FloorDivide \/ Modulo

SpecArith == InitArith /\ [][NextArith]_vars

\* C8: for integers a and b # 0, a % b is zero or has the sign of b, is
\* smaller than b in absolute value, a = (a // b) * b + a % b, and a // b
\* is the floor of the exact quotient.
C8_FloorModLaws ==
    (arith.pc = "done" /\ arith.b # 0) =>
        /\ arith.q.ok /\ arith.q.val.k = "int"
        /\ arith.r.ok /\ arith.r.val.k = "int"
        /\ LET a == arith.a
               b == arith.b
               q == arith.q.val.n
               r == arith.r.val.n
           IN  /\ r = 0 \/ (r < 0) = (b < 0)
               /\ Abs(r) < Abs(b)
               /\ a = q * b + r
               \* q <= a/b < q + 1
               /\ b > 0 => (q * b <= a /\ a < (q + 1) * b)
               /\ b < 0 => (q * b >= a /\ a > (q + 1) * b)
C8_Witness ==
    /\ arith.pc = "done"
    /\ arith.a = -7 /\ arith.b = 2
    /\ arith.q = Ok(IntV(-4)) /\ arith.r = Ok(IntV(1))
(***************************************************************************)
(* Claims about the application (Spec).                                    *)
(***************************************************************************)
\* the request of worker w is empty, or its evaluation raised
FailedOrEmpty(w) ==
    \/ req[w].expression = <<>>
    \/ req[w].pc \in {"evaluated", "done"} /\ ~req[w].outcome.ok
RowsBy(id) == {i \in 1..Len(records) : records[i].by = id}

\* C1: the records change only by the step of a request whose safe_eval
\* call returned a value, which appends the row of that request; a step
\* of a request that is empty or whose evaluation failed leaves the
\* records as they are.
C1_RecordsOnlyFromSuccess ==
    [][/\ records' # records =>
            \E w \in Workers :
                /\ req[w].pc = "evaluated" /\ req'[w].pc = "done"
                /\ IsValue(req[w].outcome)
                /\ req[w].expression # <<>>
                /\ Len(records') = Len(records) + 1
                /\ SubSeq(records', 1, Len(records)) = records
                /\ records'[Len(records')].by = req[w].id
       /\ \A w \in Workers :
            (req'[w] # req[w] /\ (FailedOrEmpty(w) \/ req[w].pc # "evaluated"))
                => records' = records]_vars
\* a failed request, an empty request and a stored one
C1_Witness ==
    /\ Len(records) = 1 /\ records[1].outcome.ok
    /\ \E w \in Workers :
        /\ req[w].pc = "done"
        /\ ~req[w].outcome.ok
        /\ req[w].expression # <<>>
        /\ RowsBy(req[w].id) = {}

C10_AppendOnlyLog ==
    /\ \A i \in 1..Len(records) :
        /\ records[i].id = i
        /\ records[i].result = StrOf(records[i].outcome.val)
        /\ Len(records[i].result) <= 64
        /\ Len(records[i].expression) <= 255
    /\ \A w \in Workers :
        (req[w].pc = "done" /\ req[w].expression # <<>> /\ req[w].outcome.ok)
            => /\ Cardinality(RowsBy(req[w].id)) = 1
               /\ \A i \in RowsBy(req[w].id) :
                    records[i].expression = req[w].expression
====
